---- MODULE Spec2Model ----
(***************************************************************************)
(* catch_calculator.py: the catch-rate table for the Galarian birds.       *)
(*                                                                         *)
(* The module's globals are read once, main() prints the table row by row  *)
(* and the module ends with a bare print().  The module has no __main__    *)
(* guard, so importing it runs main() first and leaves calc_modi,          *)
(* calc_catch, calc_avg, calc_throws, round_catch and round_avg callable.  *)
(*                                                                         *)
(* Python floats are modelled as decimal fixed-point numbers with six      *)
(* fractional digits: the integer n stands for n / S.  The constants of    *)
(* the source are all exact at that resolution.  pow and math.log are      *)
(* computed by range reduction and power series on that grid, accurate to  *)
(* a few units of 1/S; a float that Python makes complex is a tagged       *)
(* value.  A text is a sequence of pieces.  In a table row every piece is  *)
(* one character; the fixed texts around the table keep the string         *)
(* literals of the source whole.                                           *)
(***************************************************************************)
EXTENDS Integers, Sequences, FiniteSets, TLC

K == 1000
S == K * K

\* Terms kept of the series of math.log and of pow.
LnTerms == 15
ExpTerms == 12

LN2 == 693147

\* Op(v) and Op(v, w) with v and w computed once, as Python computes an
\* argument or the value of a name once.
Bind(v, Op(_)) == CHOOSE r \in {Op(x) : x \in {v}} : TRUE
Bind2(v, w, Op(_, _)) == CHOOSE r \in {Op(x, y) : x \in {v}, y \in {w}} : TRUE

Abs(x) == IF x < 0 THEN 0 - x ELSE x
Sgn(x) == IF x < 0 THEN 0 - 1 ELSE IF x > 0 THEN 1 ELSE 0

\* a * b rounded to the grid, for a, b >= 0, without leaving 32 bits.
MulU(a, b) ==
    LET a1 == a \div K
        a0 == a % K
        b1 == b \div K
        b0 == b % K
        t  == a1 * b0 + a0 * b1
    IN  a1 * b1 + (t \div K) + (((t % K) * K + a0 * b0 + (S \div 2)) \div S)

\* The float product a * b.
Mul(a, b) == Bind2(a, b, LAMBDA x, y : Sgn(x) * Sgn(y) * MulU(Abs(x), Abs(y)))

RECURSIVE DivDigits(_, _, _)
DivDigits(r, b, w) ==
    IF w = 0 THEN 0
    ELSE ((r * 10) \div b) * w + DivDigits((r * 10) % b, b, w \div 10)

RECURSIVE DivRest(_, _, _)
DivRest(r, b, w) == IF w = 0 THEN r ELSE DivRest((r * 10) % b, b, w \div 10)

\* a / b rounded to the grid, for a >= 0 and b > 0: long division, digit by
\* digit.
DivU(a, b) ==
    (a \div b) * S + DivDigits(a % b, b, S \div 10)
    + (IF 2 * DivRest(a % b, b, S \div 10) >= b THEN 1 ELSE 0)

\* The float quotient a / b, b # 0.
Div(a, b) == Bind2(a, b, LAMBDA x, y : Sgn(x) * Sgn(y) * DivU(Abs(x), Abs(y)))

\* z + z^3/3 + z^5/5 + ... from the term z^k on (z >= 0, z2 = z^2).
RECURSIVE AtanhSeries(_, _, _)
AtanhSeries(term, z2, k) ==
    IF k > LnTerms \/ term = 0 THEN 0
    ELSE (term \div k) + Bind(MulU(term, z2), LAMBDA t : AtanhSeries(t, z2, k + 2))

\* ln x for x in [3/4, 3/2]: 2 atanh((x - 1) / (x + 1)).
LnCore(x) ==
    Bind(DivU(Abs(x - S), x + S),
         LAMBDA z : Sgn(x - S) * 2 * Bind(MulU(z, z), LAMBDA z2 : AtanhSeries(z, z2, 1)))

\* math.log(x) for x > 0.
RECURSIVE Ln(_)
Ln(x) ==
    IF 4 * x < 3 * S THEN Ln(2 * x) - LN2
    ELSE IF 2 * x > 3 * S THEN Ln(x \div 2) + LN2
    ELSE LnCore(x)

\* sum of sign^n r^n / n! from the term r^n / n! on (r >= 0).
RECURSIVE ExpSeries(_, _, _, _)
ExpSeries(term, r, n, sign) ==
    IF n > ExpTerms \/ term = 0 THEN 0
    ELSE (IF sign < 0 /\ n % 2 = 1 THEN 0 - term ELSE term)
         + Bind(MulU(term, r) \div (n + 1), LAMBDA t : ExpSeries(t, r, n + 1, sign))

RECURSIVE Pow2(_)
Pow2(k) == IF k = 0 THEN 1 ELSE 2 * Pow2(k - 1)

\* e^t = 2^k e^r with t = k ln 2 + r.  A result below 1/S is 0 on the grid.
ExpOf(t) ==
    LET u == Abs(t)
        k == u \div LN2
        r == u % LN2
    IN  IF t >= 0 THEN Pow2(k) * ExpSeries(S, r, 0, 1)
        ELSE IF k > 30 THEN 0
        ELSE ExpSeries(S, r, 0, 0 - 1) \div Pow2(k)

Exp(x) == Bind(x, LAMBDA t : ExpOf(t))

\* A Python number: a float on the grid, or a complex number.
F(n) == [cx |-> FALSE, v |-> n]
Complex == [cx |-> TRUE, v |-> 0]

\* pow(x, y) for floats x and y >= 0, as e^(y ln |x|): a negative base with a
\* fractional exponent gives a complex number.  An exponent y ln x below -20
\* gives 0 on the grid.
PowOf(x, y) ==
    IF y = 0 THEN F(S)
    ELSE IF x = 0 THEN F(0)
    ELSE IF y = S THEN F(x)
    ELSE IF x < 0 /\ y % S # 0 THEN Complex
    ELSE Bind(Ln(Abs(x)), LAMBDA l :
             LET m == IF l < 0 /\ (y \div (10 * K)) * ((0 - l) \div K) >= 20 * 100 * K
                      THEN 0
                      ELSE Exp(Mul(y, l))
             IN  F(IF x < 0 /\ (y \div S) % 2 = 1 THEN 0 - m ELSE m))

Pow(a, b) == Bind2(a, b, LAMBDA x, y : PowOf(x, y))

\* 1 - x.
OneMinus(x) == IF x.cx THEN Complex ELSE F(S - x.v)

(***************************************************************************)
(* The globals (lines 36-67).                                              *)
(***************************************************************************)
BASE_RATE == 3 * K
BERRY == 2500 * K
CURVE == 1700 * K
ENCOUNTER == S
MEDAL == 1400 * K
BALL == 2 * S
SUCCESS_PERC == 990 * K

\* The keys are the level's digits.
CPM ==
    (<<"1">> :> 94 * K) @@ (<<"1", "0">> :> 422500) @@ (<<"2", "0">> :> 597400)
    @@ (<<"3", "0">> :> 731700)

THROW == [NONE |-> S, NICE |-> 1200 * K, GREAT |-> 1500 * K, EXCELENT |-> 1900 * K]

\* The globals as the source sets them.
Builtin ==
    [BASE_RATE |-> BASE_RATE, BERRY |-> BERRY, CURVE |-> CURVE,
     ENCOUNTER |-> ENCOUNTER, MEDAL |-> MEDAL, BALL |-> BALL,
     SUCCESS_PERC |-> SUCCESS_PERC]

\* Other settings of BASE_RATE ("this varies by species"): none, the 2 % of
\* other legendaries, 2 * CPM['1'], a half and one.
BaseRates == {0, BASE_RATE, 20 * K, 2 * CPM[<<"1">>], S \div 2, S}

\* Settings of ENCOUNTER: wild and research.
Encounters == {ENCOUNTER, 2 * S}

Globals ==
    {[Builtin EXCEPT !.BASE_RATE = b, !.ENCOUNTER = e] :
        b \in BaseRates, e \in Encounters}

P_MIN_SUCCESS_PERC(G) == S - G.SUCCESS_PERC

\* What a call gives: its value, or the exception it raises.
Return(v) == [exc |-> "none", val |-> v]
Raise(e) == [exc |-> e, val |-> <<>>]

(***************************************************************************)
(* The functions.  G is the record of the module's globals.                *)
(***************************************************************************)
\* calc_modi with NONE's multiplier copied to the NICE line.
calc_modi_SameThrow(G) ==
    LET modifier == Mul(Mul(Mul(Mul(G.BALL, G.BERRY), G.CURVE), G.MEDAL), G.ENCOUNTER)
    IN  <<Mul(modifier, THROW.NONE), Mul(modifier, THROW.NONE),
          Mul(modifier, THROW.GREAT), Mul(modifier, THROW.EXCELENT)>>

\* calc_modi returning the NICE and GREAT modifiers in each other's place.
calc_modi_Swapped(G) ==
    LET modifier == Mul(Mul(Mul(Mul(G.BALL, G.BERRY), G.CURVE), G.MEDAL), G.ENCOUNTER)
    IN  <<Mul(modifier, THROW.NONE), Mul(modifier, THROW.GREAT),
          Mul(modifier, THROW.NICE), Mul(modifier, THROW.EXCELENT)>>

calc_modi(G) ==
    LET modifier == Mul(Mul(Mul(Mul(G.BALL, G.BERRY), G.CURVE), G.MEDAL), G.ENCOUNTER)
        modifier_none == Mul(modifier, THROW.NONE)
        modifier_nice == Mul(modifier, THROW.NICE)
        modifier_great == Mul(modifier, THROW.GREAT)
        modifier_excelent == Mul(modifier, THROW.EXCELENT)
    IN  <<modifier_none, modifier_nice, modifier_great, modifier_excelent>>

\* calc_catch with the level's multiplier left out of the divisor.
calc_catch_NoLevel(G, cpm) ==
    Bind2(calc_modi(G), S - Div(G.BASE_RATE, 2 * S), LAMBDA modi, catch_p :
        Return(<<OneMinus(Pow(catch_p, modi[1])), OneMinus(Pow(catch_p, modi[2])),
                 OneMinus(Pow(catch_p, modi[3])), OneMinus(Pow(catch_p, modi[4]))>>))

calc_catch(G, cpm) ==
    IF 2 * cpm = 0 THEN Raise("ZeroDivisionError")
    ELSE Bind2(calc_modi(G), S - Div(G.BASE_RATE, 2 * cpm), LAMBDA modi, catch_p :
             LET catch_none == OneMinus(Pow(catch_p, modi[1]))
                 catch_nice == OneMinus(Pow(catch_p, modi[2]))
                 catch_great == OneMinus(Pow(catch_p, modi[3]))
                 catch_excelent == OneMinus(Pow(catch_p, modi[4]))
             IN  Return(<<catch_none, catch_nice, catch_great, catch_excelent>>))

\* 1 / p.
Reciprocal(p) == IF p.cx THEN Complex ELSE F(Div(S, p.v))

calc_avg(p_none, p_nice, p_great, p_excelent) ==
    IF \E p \in {p_none, p_nice, p_great, p_excelent} : ~p.cx /\ p.v = 0
    THEN Raise("ZeroDivisionError")
    ELSE Return(<<Reciprocal(p_none), Reciprocal(p_nice),
                  Reciprocal(p_great), Reciprocal(p_excelent)>>)

\* calc_throws without the "if (catch_rate == 0)" of lines 134-135.
calc_throws_NoFallback(G, catch_rate) ==
    LET break_out_rate == OneMinus(catch_rate)
    IN  IF P_MIN_SUCCESS_PERC(G) <= 0 THEN Raise("ValueError")
        ELSE IF break_out_rate.cx THEN Raise("TypeError")
        ELSE IF break_out_rate.v <= 0 THEN Raise("ValueError")
        ELSE IF Ln(break_out_rate.v) = 0 THEN Raise("ZeroDivisionError")
        ELSE Return(F(Div(Ln(P_MIN_SUCCESS_PERC(G)), Ln(break_out_rate.v))))

\* calc_throws with break_out_rate = catch_rate - 1.
calc_throws_SignSlip(G, catch_rate) ==
    LET rate == IF ~catch_rate.cx /\ catch_rate.v = 0 THEN F(G.BASE_RATE)
                ELSE catch_rate
        break_out_rate == IF rate.cx THEN Complex ELSE F(rate.v - S)
    IN  IF P_MIN_SUCCESS_PERC(G) <= 0 THEN Raise("ValueError")
        ELSE IF break_out_rate.cx THEN Raise("TypeError")
        ELSE IF break_out_rate.v <= 0 THEN Raise("ValueError")
        ELSE IF Ln(break_out_rate.v) = 0 THEN Raise("ZeroDivisionError")
        ELSE Return(F(Div(Ln(P_MIN_SUCCESS_PERC(G)), Ln(break_out_rate.v))))

calc_throws(G, catch_rate) ==
    LET rate == IF ~catch_rate.cx /\ catch_rate.v = 0 THEN F(G.BASE_RATE)
                ELSE catch_rate
        break_out_rate == OneMinus(rate)
    IN  IF P_MIN_SUCCESS_PERC(G) <= 0 THEN Raise("ValueError")
        ELSE IF break_out_rate.cx THEN Raise("TypeError")
        ELSE IF break_out_rate.v <= 0 THEN Raise("ValueError")
        ELSE IF Ln(break_out_rate.v) = 0 THEN Raise("ZeroDivisionError")
        ELSE Return(F(Div(Ln(P_MIN_SUCCESS_PERC(G)), Ln(break_out_rate.v))))

(***************************************************************************)
(* Formatting.                                                             *)
(***************************************************************************)
\* round(x): to the nearest integer, a tie to the even one.
Round(x) ==
    LET q == x \div S
        r == x % S
    IN  IF 2 * r < S THEN q
        ELSE IF 2 * r > S THEN q + 1
        ELSE IF q % 2 = 0 THEN q ELSE q + 1

Digit == <<"0", "1", "2", "3", "4", "5", "6", "7", "8", "9">>

RECURSIVE StrU(_)
StrU(n) == IF n < 10 THEN <<Digit[n + 1]>> ELSE StrU(n \div 10) \o <<Digit[(n % 10) + 1]>>

\* str(n) of an int.
Str(n) == IF n < 0 THEN <<"-">> \o StrU(0 - n) ELSE StrU(n)

RECURSIVE FracStr(_, _)
FracStr(f, w) == IF f = 0 THEN <<>> ELSE <<Digit[(f \div w) + 1]>> \o FracStr(f % w, w \div 10)

\* str(x) of a float 0 or in [0.0001, 1e16): no exponent is printed there.
FloatStr(x) ==
    Str(x \div S) \o <<".">> \o (IF x % S = 0 THEN <<"0">> ELSE FracStr(x % S, S \div 10))

\* round_catch with int() for round().
round_catch_Truncate(prob) ==
    IF prob.cx THEN Raise("TypeError")
    ELSE Return(Str((prob.v * 100) \div S) \o <<" ", "%">>)

round_catch(prob) ==
    IF prob.cx THEN Raise("TypeError")
    ELSE Return(Str(Round(prob.v * 100)) \o <<" ", "%">>)

round_avg(average) ==
    IF average.cx THEN Raise("TypeError")
    ELSE Return(Str(Round(average.v)) \o <<" ", "A", "v", ".">>)

levels == <<<<"1">>, <<"1", "0">>, <<"2", "0">>, <<"3", "0">>>>

\* The text of print's first call in main (lines 179-182).
HeaderText(G) ==
    <<"--------------------------\n", "Catching: ", "Galarian Bird", "\n",
      "Galarian Bird", " has a base catch rate of: ">> \o FloatStr(G.BASE_RATE)
    \o <<"\n", "Each cell indicates both the percentage chance and the average number of throws for a successful catch.\n">>

\* Lines 185-186.
ColumnsText(G) ==
    <<"\t\tNONE\t\t\tNICE\t\t\tGREAT\t\t\tEXCELENT\t\tFor a ">>
    \o Str(Round(G.SUCCESS_PERC * 100)) \o <<"%", " catch chance:\n",
      "\t    __________________________________________________________________________________________________________________________________________________________________">>

\* Lines 191-194.
LabelText(lv) ==
    IF lv = <<"1">>
    THEN <<"l", "e", "v", "e", "l", " ">> \o lv \o <<" ", " ", " ", " ", "|">>
    ELSE <<"l", "e", "v", "e", "l", " ">> \o lv \o <<" ", " ", " ", "|">>

\* The argument of the print of lines 208-214, or the exception raised
\* while it is built.
RowText(c, a, e, n) ==
    LET cell == [i \in 1..4 |-> <<round_catch(c[i]), round_avg(a[i])>>]
    IN  IF (\E i \in 1..4 : cell[i][1].exc # "none" \/ cell[i][2].exc # "none")
           \/ e.cx \/ n.cx
        THEN Raise("TypeError")
        ELSE Return(
              <<"\t">> \o cell[1][1].val \o <<" ", "|", " ">> \o cell[1][2].val
              \o <<"\t", "\t">> \o cell[2][1].val \o <<" ", "|", " ">> \o cell[2][2].val
              \o <<"\t", "\t">> \o cell[3][1].val \o <<" ", "|", " ">> \o cell[3][2].val
              \o <<"\t", "\t">> \o cell[4][1].val \o <<" ", "|", " ">> \o cell[4][2].val
              \o <<"\t", "\t">>
              \o Str(Round(e.v))
              \o <<" ", "E", "X", "C", "E", "L", "E", "N", "T", " ",
                    "t", "h", "r", "o", "w", "s", " ", "/", " ">>
              \o Str(Round(n.v))
              \o <<" ", "N", "O", "R", "M", "A", "L", " ", "t", "h", "r", "o", "w", "s">>)

\* Lines 218-222.
DisclaimerText ==
    <<"\nThis calculation assumes:\n", " * Golden RazzBerry\n", " * Curveball Throw\n",
      " * Ultra Ball\n", " * Platinum Catch Medal(s)">>

(***************************************************************************)
(* The run of the module.                                                  *)
(*   g         the module's globals                                        *)
(*   pc        the statement main() is at                                  *)
(*   level     the index in levels of the loop's level                     *)
(*   catch, avg, e_throws, n_throws   main's locals (<<>>: not yet bound)  *)
(*   line      what print(..., end='') left on the unfinished line         *)
(*   out       the finished print calls on standard output                 *)
(*   exc       the uncaught exception that ended the run, and where        *)
(*   call      the last call made of a function of the imported module     *)
(***************************************************************************)
VARIABLES g, pc, level, catch, avg, e_throws, n_throws, line, out, exc, call

vars == <<g, pc, level, catch, avg, e_throws, n_throws, line, out, exc, call>>

locals == <<catch, avg, e_throws, n_throws>>

NoExc == [type |-> "none", fn |-> "none"]
NoCall == [fn |-> "none", arg |-> <<>>, res |-> Return(<<>>)]

Init ==
    /\ g \in Globals
    /\ pc = "header"
    /\ level = 0
    /\ catch = <<>>
    /\ avg = <<>>
    /\ e_throws = <<>>
    /\ n_throws = <<>>
    /\ line = <<>>
    /\ out = <<>>
    /\ exc = NoExc
    /\ call = NoCall

\* print(text): the line is finished.
print(text) == out' = Append(out, line \o text) /\ line' = <<>>

\* An exception no one catches ends the run.
Fail(type, fn) ==
    /\ exc' = [type |-> type, fn |-> fn]
    /\ pc' = "failed"

PrintHeader ==
    /\ pc = "header"
    /\ print(HeaderText(g))
    /\ pc' = "columns"
    /\ UNCHANGED <<g, level, locals, exc, call>>

PrintColumns ==
    /\ pc = "columns"
    /\ print(ColumnsText(g))
    /\ level' = 1
    /\ pc' = "label"
    /\ UNCHANGED <<g, locals, exc, call>>

PrintLabel ==
    /\ pc = "label"
    /\ line' = line \o LabelText(levels[level])
    /\ pc' = "catch"
    /\ UNCHANGED <<g, level, locals, out, exc, call>>

\* CalcCatch with the first level's coefficient for every row.
CalcCatch_FirstLevel ==
    /\ pc = "catch"
    /\ LET r == calc_catch(g, CPM[levels[1]])
       IN  IF r.exc # "none"
           THEN Fail(r.exc, "calc_catch") /\ UNCHANGED catch
           ELSE catch' = r.val /\ pc' = "avg" /\ UNCHANGED exc
    /\ UNCHANGED <<g, level, avg, e_throws, n_throws, line, out, call>>

CalcCatch ==
    /\ pc = "catch"
    /\ LET r == calc_catch(g, CPM[levels[level]])
       IN  IF r.exc # "none"
           THEN Fail(r.exc, "calc_catch") /\ UNCHANGED catch
           ELSE catch' = r.val /\ pc' = "avg" /\ UNCHANGED exc
    /\ UNCHANGED <<g, level, avg, e_throws, n_throws, line, out, call>>

CalcAvg ==
    /\ pc = "avg"
    /\ LET r == calc_avg(catch[1], catch[2], catch[3], catch[4])
       IN  IF r.exc # "none"
           THEN Fail(r.exc, "calc_avg") /\ UNCHANGED avg
           ELSE avg' = r.val /\ pc' = "e_throws" /\ UNCHANGED exc
    /\ UNCHANGED <<g, level, catch, e_throws, n_throws, line, out, call>>

CalcEThrows ==
    /\ pc = "e_throws"
    /\ LET r == calc_throws(g, catch[4])
       IN  IF r.exc # "none"
           THEN Fail(r.exc, "calc_throws") /\ UNCHANGED e_throws
           ELSE e_throws' = r.val /\ pc' = "n_throws" /\ UNCHANGED exc
    /\ UNCHANGED <<g, level, catch, avg, n_throws, line, out, call>>

CalcNThrows ==
    /\ pc = "n_throws"
    /\ LET r == calc_throws(g, catch[1])
       IN  IF r.exc # "none"
           THEN Fail(r.exc, "calc_throws") /\ UNCHANGED n_throws
           ELSE n_throws' = r.val /\ pc' = "row" /\ UNCHANGED exc
    /\ UNCHANGED <<g, level, catch, avg, e_throws, line, out, call>>

PrintRow ==
    /\ pc = "row"
    /\ LET r == RowText(catch, avg, e_throws, n_throws)
       IN  IF r.exc # "none"
           THEN Fail(r.exc, "main") /\ UNCHANGED <<level, line, out>>
           ELSE /\ print(r.val)
                /\ IF level < Len(levels)
                   THEN level' = level + 1 /\ pc' = "label"
                   ELSE level' = level /\ pc' = "disclaimer"
                /\ UNCHANGED exc
    /\ UNCHANGED <<g, locals, call>>

PrintDisclaimer ==
    /\ pc = "disclaimer"
    /\ print(DisclaimerText)
    /\ pc' = "newline"
    /\ UNCHANGED <<g, level, locals, exc, call>>

\* The module's last statement, print().
PrintNewline ==
    /\ pc = "newline"
    /\ print(<<>>)
    /\ pc' = "done"
    /\ UNCHANGED <<g, level, locals, exc, call>>

Main ==
    \/ PrintHeader
    \/ PrintColumns
    \/ PrintLabel
    \/ CalcCatch
    \/ CalcAvg
    \/ CalcEThrows
    \/ CalcNThrows
    \/ PrintRow
    \/ PrintDisclaimer
    \/ PrintNewline

(***************************************************************************)
(* Calls of the imported module's functions.  The import has run main()    *)
(* and the last print(); the functions read the same globals.              *)
(***************************************************************************)
\* Arguments tried: the level table's coefficients, one more inside their
\* range, zero and two negative ones.
CatchArgs ==
    {CPM[levels[i]] : i \in 1..Len(levels)}
    \cup {250 * K, 0, 0 - CPM[<<"1">>], 0 - CPM[<<"3", "0">>]}

Probabilities == {0, S \div 4, S \div 2, S}

ThrowArgs(G) == {F(p) : p \in Probabilities \cup {G.BASE_RATE}}

\* 0.005 and 0.015 are ties of round(prob * 100), 2.5 and 3.5 of round(average).
RoundCatchArgs == {F(p) : p \in Probabilities \cup {5 * K, 15 * K, 174217}}
RoundAvgArgs == {F(a) : a \in {S, 2 * S, 2500 * K, 3500 * K, 5739968}}

Called(fn, arg, res) ==
    /\ pc = "done"
    /\ call' = [fn |-> fn, arg |-> arg, res |-> res]
    /\ UNCHANGED <<g, pc, level, locals, line, out, exc>>

CallCalcModi == Called("calc_modi", <<>>, Return(calc_modi(g)))

CallCalcCatch == \E cpm \in CatchArgs : Called("calc_catch", cpm, calc_catch(g, cpm))

CallCalcAvg ==
    \E p \in Probabilities, q \in Probabilities :
        Called("calc_avg", <<F(p), F(q), F(q), F(p)>>, calc_avg(F(p), F(q), F(q), F(p)))

CallCalcThrows ==
    \E rate \in ThrowArgs(g) : Called("calc_throws", rate, calc_throws(g, rate))

CallRoundCatch == \E prob \in RoundCatchArgs : Called("round_catch", prob, round_catch(prob))

CallRoundAvg == \E average \in RoundAvgArgs : Called("round_avg", average, round_avg(average))

Calls ==
    \/ CallCalcModi
    \/ CallCalcCatch
    \/ CallCalcAvg
    \/ CallCalcThrows
    \/ CallRoundCatch
    \/ CallRoundAvg

Next == Main \/ Calls

Spec == Init /\ [][Next]_vars

\* The interpreter runs the module's statements one after the other: a
\* statement that can run does.
FairSpec == Spec /\ WF_vars(Main)
(***************************************************************************)
(* The claims.                                                             *)
(***************************************************************************)
TierCount == Len(<<THROW.NONE, THROW.NICE, THROW.GREAT, THROW.EXCELENT>>)

IsProbability(x) == ~x.cx /\ 0 <= x.v /\ x.v <= S

\* The ranges of the module docstring (lines 8-22).
InDocumentedRange(G) ==
    /\ 0 < G.BASE_RATE /\ G.BASE_RATE <= S
    /\ S <= G.BALL /\ G.BALL <= 2 * S
    /\ S <= G.BERRY /\ G.BERRY <= 2500 * K
    /\ G.CURVE \in {S, 1700 * K}
    /\ S <= G.MEDAL /\ G.MEDAL <= 1400 * K
    /\ G.ENCOUNTER \in {S, 2 * S, 10 * S}
    /\ \A t \in {THROW.NONE, THROW.NICE, THROW.GREAT, THROW.EXCELENT} : S <= t /\ t <= 2 * S

CoefficientInRange(cpm) == CPM[levels[1]] <= cpm /\ cpm <= CPM[levels[Len(levels)]]

\* C1: with the base rate in (0, 1] and the level coefficient and the
\* multipliers in their documented ranges, each of the four values calc_catch
\* returns is a probability in [0, 1], in main's rows and in a direct call.
C1_CatchIsProbability ==
    InDocumentedRange(g) =>
        /\ catch # <<>> => \A i \in 1..TierCount : IsProbability(catch[i])
        /\ (call.fn = "calc_catch" /\ CoefficientInRange(call.arg)) =>
               /\ call.res.exc = "none"
               /\ \A i \in 1..TierCount : IsProbability(call.res.val[i])

\* C2: calc_catch called with a level coefficient that is zero or negative
\* raises an error and returns no probabilities.
C2_NonPositiveCoefficientRejected ==
    (call.fn = "calc_catch" /\ call.arg <= 0) => call.res.exc # "none"

\* A row of main holds a capture probability of exactly 0 or exactly 1.
InvalidCell == catch # <<>> /\ \E i \in 1..TierCount : ~catch[i].cx /\ catch[i].v \in {0, S}

\* The rows of the table on standard output so far, and the place of row k.
RowsPrinted == IF Len(out) <= 2 THEN 0 ELSE IF Len(out) >= 2 + Len(levels) THEN Len(levels) ELSE Len(out) - 2
RowLine(k) == out[k + 2]

\* C3: a (level, tier) pair with capture probability exactly 0 or 1 does not
\* end the run: only its cell is given up, no exception goes uncaught, and
\* the run goes on to print every level's row.
C3_InvalidCellIsLocal ==
    InvalidCell =>
        /\ pc # "failed"
        /\ exc = NoExc
        /\ pc = "done" => RowsPrinted = Len(levels)

\* What log(1 - targetConfidence) / log(1 - BASE_RATE) is.
FallbackThrows(G) == F(Div(Ln(S - G.SUCCESS_PERC), Ln(S - G.BASE_RATE)))

\* A row of main holds a capture probability of exactly 0.
ZeroRow == catch # <<>> /\ \E i \in 1..TierCount : catch[i] = F(0)

ZeroCallFallsBack ==
    (call.fn = "calc_throws" /\ call.arg = F(0)) =>
        /\ call.res.exc = "none"
        /\ call.res.val = FallbackThrows(g)

C5_TierMonotone ==
    g = Builtin =>
        /\ catch # <<>> =>
              \A i \in 1..(TierCount - 1) :
                  ~catch[i].cx /\ ~catch[i + 1].cx /\ catch[i].v < catch[i + 1].v
        /\ avg # <<>> =>
              \A i \in 1..(TierCount - 1) :
                  ~avg[i].cx /\ ~avg[i + 1].cx /\ avg[i].v > avg[i + 1].v

C5_LastRowComputed == g = Builtin /\ pc = "row" /\ level = Len(levels)

\* The level whose probabilities the local catch holds (0: none yet).
CatchLevel ==
    IF catch = <<>> THEN 0 ELSE IF pc \in {"label", "catch"} THEN level - 1 ELSE level

\* C6: with the built-in globals, the level coefficients increase through
\* the level table and, for each tier, the probability calc_catch returns
\* for a level is strictly below the one it returns for the level before.
C6_LevelMonotone ==
    /\ \A k \in 2..Len(levels) : CPM[levels[k - 1]] < CPM[levels[k]]
    /\ (g = Builtin /\ CatchLevel >= 2) =>
          \A i \in 1..TierCount :
              catch[i].v < calc_catch(g, CPM[levels[CatchLevel - 1]]).val[i].v

C6_LastLevelComputed == g = Builtin /\ CatchLevel = Len(levels) /\ pc = "avg"

\* The run has printed the header, the four rows and the disclaimer.
AllPrinted ==
    /\ Len(out) = 4 + Len(levels)
    /\ out[1] = HeaderText(g)
    /\ \A k \in 1..Len(levels) :
          SubSeq(RowLine(k), 1, Len(LabelText(levels[k]))) = LabelText(levels[k])
    /\ out[3 + Len(levels)] = DisclaimerText

\* C7: with the built-in globals the run never raises: every capture
\* probability is strictly between 0 and 1, and the run reaches its end with
\* the header, the four level rows and the disclaimer printed.
C7_BuiltinRunCompletes ==
    /\ [](g = Builtin =>
            /\ pc # "failed" /\ exc = NoExc
            /\ catch # <<>> =>
                  \A i \in 1..TierCount : ~catch[i].cx /\ 0 < catch[i].v /\ catch[i].v < S)
    /\ (g = Builtin) ~> (pc = "done" /\ exc = NoExc /\ AllPrinted)

C7_BuiltinRunDone == g = Builtin /\ pc = "done" /\ Len(out) = 4 + Len(levels)

\* BALL * BERRY * CURVE * MEDAL * ENCOUNTER.
ModifierProduct(G) == Mul(Mul(Mul(Mul(G.BALL, G.BERRY), G.CURVE), G.MEDAL), G.ENCOUNTER)

\* C8: calc_modi returns four modifiers, in the order NONE, NICE, GREAT,
\* EXCELENT, each the product of the five multipliers and the tier's throw
\* multiplier: 11.9, 14.28, 17.85 and 22.61 with the built-in globals; and
\* the i-th probability of calc_catch is 1 - catch_p ^ (the i-th modifier).
C8_ModifiersInTierOrder ==
    /\ call.fn = "calc_modi" =>
          /\ call.res.val =
                <<Mul(ModifierProduct(g), THROW.NONE), Mul(ModifierProduct(g), THROW.NICE),
                  Mul(ModifierProduct(g), THROW.GREAT), Mul(ModifierProduct(g), THROW.EXCELENT)>>
          /\ g = Builtin => call.res.val = <<11900 * K, 14280 * K, 17850 * K, 22610 * K>>
    /\ CatchLevel >= 1 =>
          LET catch_p == S - Div(g.BASE_RATE, 2 * CPM[levels[CatchLevel]])
              modi == <<Mul(ModifierProduct(g), THROW.NONE), Mul(ModifierProduct(g), THROW.NICE),
                        Mul(ModifierProduct(g), THROW.GREAT), Mul(ModifierProduct(g), THROW.EXCELENT)>>
          IN  \A i \in 1..TierCount : catch[i] = OneMinus(Pow(catch_p, modi[i]))

C8_ModifiersReturned == call.fn = "calc_modi" /\ g = Builtin /\ CatchLevel = Len(levels)

IsDigit(c) == \E d \in 1..Len(Digit) : c = Digit[d]
IsNumber(t) == t # <<>> /\ \A i \in 1..Len(t) : IsDigit(t[i])

\* Where a field of the text starts and ends: a field is a longest stretch
\* without a tab.
FieldStarts(t) == {i \in 1..Len(t) : t[i] # "\t" /\ (i = 1 \/ t[i - 1] = "\t")}
FieldEnd(t, i) ==
    CHOOSE j \in i..Len(t) :
        /\ \A m \in i..j : t[m] # "\t"
        /\ (j = Len(t) \/ t[j + 1] = "\t")

\* What stands between the tabs of a row: the label, the cells, the summary.
Fields(row) ==
    [k \in 1..Cardinality(FieldStarts(row)) |->
        LET i == CHOOSE x \in FieldStarts(row) :
                     Cardinality({y \in FieldStarts(row) : y < x}) = k - 1
        IN  SubSeq(row, i, FieldEnd(row, i))]

\* cell is <number> mid <number> end.
HasForm(cell, mid, end) ==
    \E i \in 1..Len(cell) :
        /\ IsNumber(SubSeq(cell, 1, i))
        /\ SubSeq(cell, i + 1, i + Len(mid)) = mid
        /\ IsNumber(SubSeq(cell, i + Len(mid) + 1, Len(cell) - Len(end)))
        /\ SubSeq(cell, Len(cell) - Len(end) + 1, Len(cell)) = end
        /\ Len(cell) >= i + Len(mid) + 1 + Len(end)

\* The row whose values main's locals hold, once it is printed (0: none).
FreshRow ==
    IF pc \in {"label", "catch"} THEN level - 1
    ELSE IF pc \in {"disclaimer", "newline", "done"} THEN Len(levels)
    ELSE 0

\* "<percent> % | <n> Av." for a probability and an average.
CellText(p, a) ==
    Str(Round(p.v * 100)) \o <<" ", "%", " ", "|", " ">> \o Str(Round(a.v))
    \o <<" ", "A", "v", ".">>

\* C9 as stated: every cell printed is "<percent>% | <n> Av.", the percent
\* immediately followed by '%'.
C9_CellPercentThenSign ==
    \A k \in 1..RowsPrinted : \A c \in 1..TierCount :
        HasForm(Fields(RowLine(k))[c + 1], <<"%", " ", "|", " ">>, <<" ", "A", "v", ".">>)

\* C9, amended: every cell printed is "<percent> % | <n> Av.": the
\* whole-number percent, a space, '%', ' | ', the whole-number expected
\* attempts, ' Av.'; the numbers are the row's probability times 100 and its
\* average, rounded.
C9_CellPercentSpaceSign ==
    /\ \A k \in 1..RowsPrinted : \A c \in 1..TierCount :
          HasForm(Fields(RowLine(k))[c + 1], <<" ", "%", " ", "|", " ">>, <<" ", "A", "v", ".">>)
    /\ FreshRow >= 1 =>
          \A c \in 1..TierCount :
              Fields(RowLine(FreshRow))[c + 1] = CellText(catch[c], avg[c])

C9_RowsPrinted == RowsPrinted = Len(levels) /\ g = Builtin

\* The row of the table for level lv, from that level's coefficient alone.
ExpectedFields(G, lv) ==
    LET c == calc_catch(G, CPM[lv]).val
        a == calc_avg(c[1], c[2], c[3], c[4]).val
        best == calc_throws(G, c[TierCount]).val
        worst == calc_throws(G, c[1]).val
    IN  <<LabelText(lv), CellText(c[1], a[1]), CellText(c[2], a[2]), CellText(c[3], a[3]),
          CellText(c[4], a[4]),
          Str(Round(best.v))
          \o <<" ", "E", "X", "C", "E", "L", "E", "N", "T", " ",
               "t", "h", "r", "o", "w", "s", " ", "/", " ">>
          \o Str(Round(worst.v))
          \o <<" ", "N", "O", "R", "M", "A", "L", " ", "t", "h", "r", "o", "w", "s">>>>

\* C10: standard output is the header, the column titles, one row per level
\* in the order 1, 10, 20, 30, then the disclaimer; a row holds its level's
\* label, the four cells in tier order computed from that level's
\* coefficient, then the attempts for 99 % of its EXCELENT and of its NONE
\* probability, in that order.
C10_RowsInLevelOrder ==
    /\ Len(out) >= 1 => out[1] = HeaderText(g)
    /\ Len(out) >= 2 => out[2] = ColumnsText(g)
    /\ \A k \in 1..RowsPrinted : Fields(RowLine(k)) = ExpectedFields(g, levels[k])
    /\ Len(out) >= 3 + Len(levels) => out[3 + Len(levels)] = DisclaimerText
    /\ Len(out) <= 4 + Len(levels)
    /\ pc \in {"label", "catch", "avg", "e_throws", "n_throws", "row"} => RowsPrinted = level - 1
    /\ pc = "done" => Len(out) = 4 + Len(levels) /\ RowsPrinted = Len(levels)

C10_TablePrinted == pc = "done" /\ RowsPrinted = Len(levels) /\ g # Builtin
====
